---- MODULE Spec2Model ----
(***************************************************************************)
(* Model of Demo/CORTEX_LM3S811_GCC/main.c: a FreeRTOS pipeline            *)
(*   vSimulateTemperatureSensorTask -> xRawTemperatureQueue ->             *)
(*   vLowPassFilterTask -> xFilteredDataQueue -> vDisplayGraphTask         *)
(* with vUARTReaderTask publishing filter_window_size.                     *)
(*                                                                         *)
(* Every task is a process; a task's position is its pc variable.  The     *)
(* scheduler is preemptive, so the steps of the tasks interleave freely;   *)
(* one step runs from one blocking call (or shared access) to the next.    *)
(***************************************************************************)
EXTENDS Integers, Sequences, FiniteSets

(***************************************************************************)
(* Program constants (the #defines of main.c).                             *)
(***************************************************************************)
INPUT_BUFFER_SIZE == 10
MIN_TEMPERATURE == 15
TEMPERATURE_RANGE == 20
MAX_HEIGHT == 15
DISPLAY_BUFFER_OFFSET == 96
Y_AXIS_HEIGHT == 16
X_AXIS_POSITION == 15
\* mutant of QUEUE_LENGTH: the queues created one slot too long
QueueLengthOffByOne == 10 + 1
QUEUE_LENGTH == 10
MAX_WINDOW_SIZE == 100
MIN_WINDOW_SIZE == 10
\* volatile int filter_window_size = 5;
InitialWindowSize == 5
\* static unsigned int seed = 6789;
InitialSeed == 6789
\* seed * 1103515245 + 12345, the multiplier split in two 16-bit halves
\* (1103515245 = 16838 * 65536 + 20077) so that no product leaves 32 bits.
MultiplierHi == 16838
MultiplierLo == 20077
INCREMENT == 12345

(***************************************************************************)
(* Bounds of the model.                                                    *)
(***************************************************************************)
\* samples the sensor task may generate: full program / pipeline alone
MaxSamples == 3
MaxPipeSamples == 12
\* characters the operator may type: full program / command interface alone
MaxKeys == 3
MaxLineKeys == 11
\* samples fed to the filter since task start or the last reset (filter alone)
MaxHist == 11
\* samples the sensor task may generate when the program runs from reset
MaxMainSamples == 3
\* report cycles of the resource monitor
MaxCycles == 8
\* values fed to the graph task when it is run alone
MaxRenders == 97
\* samples, and writes to the slot between two reads, when the slot is studied
MaxRaceSamples == 2
MaxWrites == 3

\* characters the operator may type
Digits == {"0", "1"}
Terminators == {"\r", "\n"}
Chars == Digits \cup Terminators \cup {"a"}
\* sample values offered to the filter when it is run alone
SampleSet == {15, 34}
\* window sizes written to the slot when the filter is run alone
WindowSet == {10, 11}
\* what a word of heap memory that was never written may hold
Garbage == {0, 40}
\* what uxTaskGetNumberOfTasks may return: the seven tasks of main and the
\* idle task, and up to two more
TaskCounts == {8, 9, 10}

\* the tasks main creates (lines 181-246)
PipelineTasks == {"TempSensorTask", "FilterTask", "GraphTask"}
AllTasks == PipelineTasks \cup {"BusyTask", "UARTReader", "MonitorStack", "TopTask"}

(***************************************************************************)
(* C arithmetic.                                                           *)
(***************************************************************************)
\* int / int with a positive divisor truncates toward zero
CDiv(a, b) == IF a >= 0 THEN a \div b ELSE -((-a) \div b)

Min(a, b) == IF a < b THEN a ELSE b

RECURSIVE SumSeq(_)
SumSeq(s) == IF s = <<>> THEN 0 ELSE Head(s) + SumSeq(Tail(s))

\* the last n elements of s
LastN(s, n) == SubSeq(s, Len(s) - n + 1, Len(s))

VARIABLES
    \* --- vSimulateTemperatureSensorTask
    sensorPc,            \* "gen" | "send"
    seed,                \* pseudorandom()'s static seed, [hi, lo] 16-bit halves
    temperature,         \* the sample in hand
    samplesLeft,         \* samples the model still lets the sensor generate
    \* --- the two queues
    xRawTemperatureQueue,
    xFilteredDataQueue,
    \* --- vLowPassFilterTask
    filterPc,            \* "start" | "suspended" | "check" | "receive" | "send"
    window_size,
    buffer,              \* <<>> for no buffer (NULL), else the 100 cells:
                         \* buffer[i] of the code is buffer[i + 1] here
    uninit,              \* cells of buffer never written since pvPortMalloc
    index,
    sum,
    count,
    filtered_value,
    \* --- vDisplayGraphTask
    ucDisplayBuffer,     \* the 192 bytes: ucDisplayBuffer[i] of the code is
                         \* ucDisplayBuffer[i + 1] here
    \* --- vUARTReaderTask
    inputBuffer,         \* inputBuffer[0 .. inputIndex-1], the part the task reads
    inputIndex,
    keysLeft,            \* characters the model still lets the operator type
    \* --- shared
    filter_window_size,  \* the volatile global
    uartOut,             \* what the last step sent with UARTCharPut / vUARTSend
    \* --- history (not program state)
    generated,           \* samples the sensor task generated, in order
    sent,                \* samples put on the raw queue
    received,            \* samples the filter took from the raw queue
    emitted,             \* values put on the filtered queue
    rendered,            \* values the graph task took from the filtered queue
    hist,                \* samples the filter processed since start or last reset
    wasReset,            \* the filter has reset its state at least once
    dirtyAtReset,        \* the last reset discarded at least one sample
    staleEmits,          \* emits with window_size # slot since the last slot write
    lineError,           \* an error notice was sent since the last CR or LF
    afterError,          \* characters typed since the last CR, LF or error notice
    endedLine,           \* lineError of the line last ended
    \* --- main
    mainPc,              \* "createRaw" | "createFiltered" | "createTasks"
                         \* | "running" (scheduler started) | "halted" (for (;;))
    queuesCreated,       \* the queue handles that are not NULL
    tasksCreated,        \* the tasks xTaskCreate has created
    startupNotices,      \* every message main has sent, in order
    \* --- vTopLikeTask
    topPc,               \* "start" | "loop" | "crashed"
    pxTaskStatusArray,   \* "unset" before the task runs, else what the
                         \* pointer holds: "wild" | "null" | "valid"
    uxMaxTasks,
    uxArraySize,         \* the live task count read in the last cycle
    topCapacity,         \* entries of the table pxTaskStatusArray points to
                         \* (0 when it points to no allocation)
    topCalls,            \* the heap and snapshot calls of the last cycle
    topCyclesLeft,       \* report cycles the model still lets the task run
    \* --- environment of the graph task when it is run alone
    feed,                \* the filtered values still to come
    \* --- history of the slot (not program state)
    pendingWrites,       \* values written to the slot since the filter's last
                         \* read of it in the loop
    lastCheck            \* what that read found and did

sensorVars == <<sensorPc, seed, temperature, samplesLeft, generated, sent>>
queueVars == <<xRawTemperatureQueue, xFilteredDataQueue>>
filterVars == <<filterPc, window_size, buffer, uninit, index, sum, count,
                filtered_value, hist, wasReset, dirtyAtReset>>
filterLog == <<received, emitted, staleEmits>>
graphVars == <<ucDisplayBuffer, rendered>>
uartVars == <<inputBuffer, inputIndex, keysLeft, lineError, afterError,
             endedLine>>
mainVars == <<mainPc, queuesCreated, tasksCreated, startupNotices>>
topVars == <<topPc, pxTaskStatusArray, uxMaxTasks, uxArraySize, topCapacity,
            topCalls, topCyclesLeft>>
\* what no pipeline or command task touches
slotLog == <<pendingWrites, lastCheck>>
otherVars == <<mainVars, topVars, feed, slotLog>>
vars == <<sensorVars, queueVars, filterVars, filterLog, graphVars, uartVars,
          filter_window_size, uartOut, otherVars>>

(***************************************************************************)
(* The FreeRTOS queue behind xQueueCreate / xQueueSend / xQueueReceive: a  *)
(* FIFO of fixed capacity.  With portMAX_DELAY (and INCLUDE_vTaskSuspend,  *)
(* which vTaskSuspend needs) a send blocks while the queue is full and a   *)
(* receive blocks while it is empty.                                       *)
(***************************************************************************)
QueueHasRoom(queue) == Len(queue) < QUEUE_LENGTH
QueueHasItem(queue) == queue # <<>>
QueueSend(queue, item) == Append(queue, item)
QueueFront(queue) == Head(queue)
QueueRest(queue) == Tail(queue)

(***************************************************************************)
(* pseudorandom(): seed = seed * 1103515245 + 12345 in 32 bits, kept as    *)
(* two 16-bit halves; the result is (seed >> 16) & 0x7FFF.                 *)
(***************************************************************************)
NextSeed(s) ==
    LET t == s.lo * MultiplierLo + INCREMENT
    IN  [lo |-> t % 65536,
         hi |-> ((t \div 65536) + ((s.hi * MultiplierLo) % 65536)
                 + ((s.lo * MultiplierHi) % 65536)) % 65536]

pseudorandom(s) == s.hi % 32768

(***************************************************************************)
(* vSimulateTemperatureSensorTask                                          *)
(***************************************************************************)
\* line 274: temperature = MIN_TEMPERATURE + (pseudorandom() % (RANGE + 1))
SensorGenerate ==
    /\ sensorPc = "gen"
    /\ samplesLeft > 0
    /\ seed' = NextSeed(seed)
    /\ temperature' = MIN_TEMPERATURE + (pseudorandom(seed') % (TEMPERATURE_RANGE + 1))
    /\ samplesLeft' = samplesLeft - 1
    /\ generated' = Append(generated, temperature')
    /\ sensorPc' = "send"
    /\ uartOut' = <<>>
    /\ UNCHANGED <<sent, queueVars, filterVars, filterLog, graphVars,
                   uartVars, filter_window_size>>
    /\ UNCHANGED otherVars

\* mutant of SensorSend: a send that does not wait (a zero block time); on
\* a full queue it fails, the error is reported and the sample is gone
SensorSendNoWait ==
    /\ sensorPc = "send"
    /\ IF QueueHasRoom(xRawTemperatureQueue)
       THEN /\ xRawTemperatureQueue' = QueueSend(xRawTemperatureQueue, temperature)
            /\ sent' = Append(sent, temperature)
            /\ uartOut' = <<>>
       ELSE /\ uartOut' = <<"Error: temperature read couldn't be sent through the queue\n">>
            /\ UNCHANGED <<xRawTemperatureQueue, sent>>
    /\ sensorPc' = "gen"
    /\ UNCHANGED <<seed, temperature, samplesLeft, generated,
                   xFilteredDataQueue, filterVars, filterLog, graphVars,
                   uartVars, filter_window_size>>
    /\ UNCHANGED otherVars

\* lines 278-283: xQueueSend(..., portMAX_DELAY) blocks while the queue is
\* full, then the task delays 100 ms and loops.
SensorSend ==
    /\ sensorPc = "send"
    /\ QueueHasRoom(xRawTemperatureQueue)
    /\ xRawTemperatureQueue' = QueueSend(xRawTemperatureQueue, temperature)
    /\ sent' = Append(sent, temperature)
    /\ sensorPc' = "gen"
    /\ uartOut' = <<>>
    /\ UNCHANGED <<seed, temperature, samplesLeft, generated,
                   xFilteredDataQueue,
                   filterVars, filterLog, graphVars, uartVars,
                   filter_window_size>>
    /\ UNCHANGED otherVars

(***************************************************************************)
(* vLowPassFilterTask                                                      *)
(***************************************************************************)
\* lines 303-314: copy the window size, allocate the buffer; pvPortMalloc
\* returns memory that was never written, or NULL, and then the task
\* suspends itself (no task ever resumes it).
FilterStart ==
    /\ filterPc = "start"
    /\ window_size' = filter_window_size
    /\ \/ /\ buffer' = [i \in 1 .. MAX_WINDOW_SIZE |-> 0]
          /\ uninit' = 0 .. MAX_WINDOW_SIZE - 1
          /\ filterPc' = "check"
          /\ uartOut' = <<>>
       \/ /\ buffer' = <<>>
          /\ uninit' = {}
          /\ filterPc' = "suspended"
          /\ uartOut' = <<"Error: could not allocate memory for filter buffer.\n">>
    /\ index' = 0
    /\ sum' = 0
    /\ count' = 0
    /\ UNCHANGED <<filtered_value, hist, wasReset, dirtyAtReset, sensorVars,
                   queueVars, filterLog, graphVars, uartVars,
                   filter_window_size>>
    /\ UNCHANGED otherVars

\* lines 323-326: the counters and the buffer after a reset
ResetState ==
    [buffer |-> [i \in 1 .. MAX_WINDOW_SIZE |-> 0],
     index |-> 0, sum |-> 0, count |-> 0]

\* mutant of FilterReset: the memset of the buffer is missing
FilterResetNoMemset(new_window_size) ==
    /\ window_size' = new_window_size
    /\ index' = 0
    /\ sum' = 0
    /\ count' = 0
    /\ UNCHANGED <<buffer, uninit>>
    /\ uartOut' = <<"\nFilter window size updated.\n">>

\* lines 321-328, taken when the slot read differs from window_size
FilterReset(new_window_size) ==
    /\ window_size' = new_window_size
    /\ index' = ResetState.index
    /\ sum' = ResetState.sum
    /\ count' = ResetState.count
    /\ buffer' = ResetState.buffer
    /\ uninit' = {}
    /\ uartOut' = <<"\nFilter window size updated.\n">>

\* lines 318-328: one read of the volatile global, then the comparison
FilterCheckReconfig ==
    /\ filterPc = "check"
    /\ IF filter_window_size # window_size
       THEN /\ FilterReset(filter_window_size)
            /\ hist' = <<>>
            /\ wasReset' = TRUE
            /\ dirtyAtReset' = (hist # <<>>)
       ELSE /\ uartOut' = <<>>
            /\ UNCHANGED <<window_size, index, sum, count, buffer, uninit,
                           hist, wasReset, dirtyAtReset>>
    /\ filterPc' = "receive"
    /\ UNCHANGED <<filtered_value, sensorVars, queueVars, filterLog,
                   graphVars, uartVars, filter_window_size>>
    /\ UNCHANGED otherVars

\* what buffer[index] reads: a cell never written holds anything
OldValues == IF index \in uninit THEN Garbage ELSE {buffer[index + 1]}

\* mutant of NextIndex: the index does not wrap at the window size
NextIndexNoWrap(i, w) == i + 1

\* line 343
NextIndex(i, w) == (i + 1) % w

\* mutant of NextCount: the count is not capped at the window size
NextCountUnbounded(c, w) == c + 1

\* lines 346-348
NextCount(c, w) == IF c < w THEN c + 1 ELSE c

\* lines 336-351 on the filter state st with window w, for the sample
\* raw_temperature, old being what buffer[index] read
FilterStep(st, w, old, raw_temperature) ==
    LET newSum == st.sum - old + raw_temperature
        newCount == NextCount(st.count, w)
    IN  [buffer |-> [st.buffer EXCEPT ![st.index + 1] = raw_temperature],
         index |-> NextIndex(st.index, w),
         sum |-> newSum,
         count |-> newCount,
         filtered_value |-> CDiv(newSum, newCount)]

\* the values the loop of lines 316-358 emits for the samples, started in
\* state st with window w and every cell of the buffer written
RECURSIVE RunFilter(_, _, _)
RunFilter(st, w, samples) ==
    IF samples = <<>> THEN <<>>
    ELSE LET next == FilterStep(st, w, st.buffer[st.index + 1], Head(samples))
         IN  <<next.filtered_value>> \o RunFilter(next, w, Tail(samples))

\* mutant of FilterProcess: the value computed is not sent on; the loop
\* starts over
FilterProcessSkipsSend(old, raw_temperature) ==
    /\ LET next == FilterStep([buffer |-> buffer, index |-> index,
                               sum |-> sum, count |-> count],
                              window_size, old, raw_temperature)
       IN  /\ sum' = next.sum
           /\ buffer' = next.buffer
           /\ index' = next.index
           /\ count' = next.count
           /\ filtered_value' = next.filtered_value
    /\ uninit' = uninit \ {index}
    /\ hist' = Append(hist, raw_temperature)
    /\ filterPc' = "check"
    /\ uartOut' = <<>>
    /\ UNCHANGED <<window_size, wasReset, dirtyAtReset>>

\* lines 336-351 as a step of the task
FilterProcess(old, raw_temperature) ==
    /\ LET next == FilterStep([buffer |-> buffer, index |-> index,
                               sum |-> sum, count |-> count],
                              window_size, old, raw_temperature)
       IN  /\ sum' = next.sum
           /\ buffer' = next.buffer
           /\ index' = next.index
           /\ count' = next.count
           /\ filtered_value' = next.filtered_value
    /\ uninit' = uninit \ {index}
    /\ hist' = Append(hist, raw_temperature)
    /\ filterPc' = "send"
    /\ uartOut' = <<>>
    /\ UNCHANGED <<window_size, wasReset, dirtyAtReset>>

\* lines 333-351: xQueueReceive(..., portMAX_DELAY) blocks while the raw
\* queue is empty
FilterReceive ==
    /\ filterPc = "receive"
    /\ QueueHasItem(xRawTemperatureQueue)
    /\ \E old \in OldValues :
           FilterProcess(old, QueueFront(xRawTemperatureQueue))
    /\ xRawTemperatureQueue' = QueueRest(xRawTemperatureQueue)
    /\ received' = Append(received, QueueFront(xRawTemperatureQueue))
    /\ UNCHANGED <<xFilteredDataQueue, emitted, staleEmits, sensorVars,
                   graphVars, uartVars, filter_window_size>>
    /\ UNCHANGED otherVars

\* the emit was made while the slot held another value than window_size
StaleCount == IF window_size # filter_window_size
              THEN staleEmits + 1 ELSE staleEmits

\* mutant of FilterSend: the slot is read once, before the loop; the loop
\* goes straight back to the receive
FilterSendNoRecheck ==
    /\ filterPc = "send"
    /\ QueueHasRoom(xFilteredDataQueue)
    /\ xFilteredDataQueue' = QueueSend(xFilteredDataQueue, filtered_value)
    /\ emitted' = Append(emitted, filtered_value)
    /\ staleEmits' = StaleCount
    /\ filterPc' = "receive"
    /\ uartOut' = <<>>
    /\ UNCHANGED <<window_size, buffer, uninit, index, sum, count,
                   filtered_value, hist, wasReset, dirtyAtReset,
                   xRawTemperatureQueue, received, sensorVars, graphVars,
                   uartVars, filter_window_size>>
    /\ UNCHANGED otherVars

\* lines 354-357: xQueueSend(..., portMAX_DELAY) blocks while the filtered
\* queue is full; then the loop starts over
FilterSend ==
    /\ filterPc = "send"
    /\ QueueHasRoom(xFilteredDataQueue)
    /\ xFilteredDataQueue' = QueueSend(xFilteredDataQueue, filtered_value)
    /\ emitted' = Append(emitted, filtered_value)
    /\ staleEmits' = StaleCount
    /\ filterPc' = "check"
    /\ uartOut' = <<>>
    /\ UNCHANGED <<window_size, buffer, uninit, index, sum, count,
                   filtered_value, hist, wasReset, dirtyAtReset,
                   xRawTemperatureQueue, received, sensorVars, graphVars,
                   uartVars, filter_window_size>>
    /\ UNCHANGED otherVars

(***************************************************************************)
(* vDisplayGraphTask and setPixel                                          *)
(***************************************************************************)
\* byte | (1 << bit)
SetBit(byte, bit) ==
    IF (byte \div (2 ^ bit)) % 2 = 1 THEN byte ELSE byte + 2 ^ bit

\* byte & ~(1 << bit)
ClearBit(byte, bit) ==
    IF (byte \div (2 ^ bit)) % 2 = 1 THEN byte - 2 ^ bit ELSE byte

\* lines 673-681, on the bitmap buf
setPixel(buf, x, y, on) ==
    IF x < 0 \/ x >= DISPLAY_BUFFER_OFFSET \/ y < 0 \/ y >= Y_AXIS_HEIGHT
    THEN buf
    ELSE LET page == y \div (Y_AXIS_HEIGHT \div 2)
             bit == y % (Y_AXIS_HEIGHT \div 2)
             at == x + page * DISPLAY_BUFFER_OFFSET
         IN  IF on # 0
             THEN [buf EXCEPT ![at + 1] = SetBit(buf[at + 1], bit)]
             ELSE [buf EXCEPT ![at + 1] = ClearBit(buf[at + 1], bit)]

\* mutant of ScaleHeight: the two clamping tests are missing
ScaleHeightNoClamp(value) ==
    CDiv((value - MIN_TEMPERATURE) * MAX_HEIGHT, TEMPERATURE_RANGE)

\* lines 381-383
ScaleHeight(value) ==
    LET y == CDiv((value - MIN_TEMPERATURE) * MAX_HEIGHT, TEMPERATURE_RANGE)
    IN  IF y < 0 THEN 0 ELSE IF y > MAX_HEIGHT THEN MAX_HEIGHT ELSE y

\* mutant of ShiftLeft: the last column is not cleared after the shift
ShiftLeftNoClear(buf) ==
    [i \in 1 .. 2 * DISPLAY_BUFFER_OFFSET |->
        IF (i - 1) % DISPLAY_BUFFER_OFFSET = DISPLAY_BUFFER_OFFSET - 1
        THEN buf[i] ELSE buf[i + 1]]

\* lines 386-393: every column takes its right neighbour's bytes, the last
\* column is cleared
ShiftLeft(buf) ==
    [i \in 1 .. 2 * DISPLAY_BUFFER_OFFSET |->
        IF (i - 1) % DISPLAY_BUFFER_OFFSET = DISPLAY_BUFFER_OFFSET - 1
        THEN 0 ELSE buf[i + 1]]

\* lines 399-401, from row i on
RECURSIVE DrawYAxis(_, _)
DrawYAxis(buf, i) ==
    IF i < Y_AXIS_HEIGHT THEN DrawYAxis(setPixel(buf, 0, i, 1), i + 1) ELSE buf

\* lines 404-406: setPixel(i, X_AXIS_POSITION, PIXEL_ON) for every column i;
\* the call for column i changes no byte of another column
DrawXAxis(buf) ==
    [i \in 1 .. 2 * DISPLAY_BUFFER_OFFSET |->
        setPixel(buf, (i - 1) % DISPLAY_BUFFER_OFFSET, X_AXIS_POSITION, 1)[i]]

\* mutant of Render: the vertical axis is not redrawn after the shift
RenderNoYAxis(buf, value) ==
    LET y == ScaleHeight(value)
        plotted == setPixel(ShiftLeft(buf), DISPLAY_BUFFER_OFFSET - 1,
                            MAX_HEIGHT - y, 1)
    IN  DrawXAxis(plotted)

\* lines 381-406: the bitmap after one rendered value
Render(buf, value) ==
    LET y == ScaleHeight(value)
        plotted == setPixel(ShiftLeft(buf), DISPLAY_BUFFER_OFFSET - 1,
                            MAX_HEIGHT - y, 1)
    IN  DrawXAxis(DrawYAxis(plotted, 0))

\* lines 375-416: xQueueReceive(..., portMAX_DELAY) blocks while the filtered
\* queue is empty; the OSRAM calls hand the bitmap to the display driver;
\* then the task delays 100 ms and loops.
DisplayGraph ==
    /\ QueueHasItem(xFilteredDataQueue)
    /\ ucDisplayBuffer' = Render(ucDisplayBuffer, QueueFront(xFilteredDataQueue))
    /\ xFilteredDataQueue' = QueueRest(xFilteredDataQueue)
    /\ rendered' = Append(rendered, QueueFront(xFilteredDataQueue))
    /\ uartOut' = <<>>
    /\ UNCHANGED <<xRawTemperatureQueue, sensorVars, filterVars, filterLog,
                   uartVars, filter_window_size>>
    /\ UNCHANGED otherVars

(***************************************************************************)
(* vUARTReaderTask and stringToInt                                         *)
(***************************************************************************)
\* c >= '0' && c <= '9'
IsDigit(c) == c \in {"0", "1", "2", "3", "4", "5", "6", "7", "8", "9"}

\* *str - '0'
DigitValue(c) ==
    CASE c = "0" -> 0 [] c = "1" -> 1 [] c = "2" -> 2 [] c = "3" -> 3
      [] c = "4" -> 4 [] c = "5" -> 5 [] c = "6" -> 6 [] c = "7" -> 7
      [] c = "8" -> 8 [] c = "9" -> 9

\* lines 713-720, with value accumulated so far
RECURSIVE ParseFrom(_, _)
ParseFrom(str, value) ==
    IF str = <<>> THEN value
    ELSE IF ~IsDigit(Head(str)) THEN -1
    ELSE ParseFrom(Tail(str), value * 10 + DigitValue(Head(str)))

\* lines 711-721
stringToInt(str) == ParseFrom(str, 0)

\* mutant of InRange: both limits are excluded
InRangeExclusive(newN) == newN > MIN_WINDOW_SIZE /\ newN < MAX_WINDOW_SIZE

\* mutant of InRange: the upper limit is not tested
InRangeNoUpper(newN) == newN >= MIN_WINDOW_SIZE

\* mutant of InRange: the lower limit is not tested
InRangeNoLower(newN) == newN <= MAX_WINDOW_SIZE

\* line 452
InRange(newN) == newN >= MIN_WINDOW_SIZE /\ newN <= MAX_WINDOW_SIZE

\* line 453: the write to the volatile global
PublishWindow(newN) ==
    /\ filter_window_size' = newN
    /\ staleEmits' = 0

\* mutant of UARTDigit: after the "too long" notice the buffer restarts
\* with the digit that did not fit
UARTDigitRestartsWithDigit(c) ==
    IF inputIndex < INPUT_BUFFER_SIZE - 1
    THEN /\ inputBuffer' = Append(inputBuffer, c)
         /\ inputIndex' = inputIndex + 1
         /\ uartOut' = <<c>>
    ELSE /\ inputBuffer' = <<c>>
         /\ inputIndex' = 1
         /\ uartOut' = <<c, "\nVery long entry. Try again.\r\n">>

\* mutant of UARTDigit: the test leaves no room for the terminating byte
UARTDigitOffByOne(c) ==
    IF inputIndex < INPUT_BUFFER_SIZE
    THEN /\ inputBuffer' = Append(inputBuffer, c)
         /\ inputIndex' = inputIndex + 1
         /\ uartOut' = <<c>>
    ELSE /\ inputBuffer' = <<>>
         /\ inputIndex' = 0
         /\ uartOut' = <<c, "\nVery long entry. Try again.\r\n">>

\* lines 439-445: a digit
UARTDigit(c) ==
    IF inputIndex < INPUT_BUFFER_SIZE - 1
    THEN /\ inputBuffer' = Append(inputBuffer, c)
         /\ inputIndex' = inputIndex + 1
         /\ uartOut' = <<c>>
    ELSE /\ inputBuffer' = <<>>
         /\ inputIndex' = 0
         /\ uartOut' = <<c, "\nVery long entry. Try again.\r\n">>

\* mutant of UARTLine: the index is reset only when the line was not
\* accepted
UARTLineKeepsAccepted(c) ==
    IF inputIndex > 0
    THEN LET newN == stringToInt(inputBuffer)
         IN  IF InRange(newN)
             THEN /\ PublishWindow(newN)
                  /\ uartOut' = <<c, "\r\n", "\n Filter now N = ">>
                                \o inputBuffer \o <<"\r\n">>
                  /\ UNCHANGED <<inputBuffer, inputIndex>>
             ELSE /\ uartOut' = <<c, "\r\n", "\n Invalid N (10-100).\r\n">>
                  /\ inputBuffer' = <<>>
                  /\ inputIndex' = 0
                  /\ UNCHANGED <<filter_window_size, staleEmits>>
    ELSE /\ uartOut' = <<c, "\r\n", "\n Empty buffer.\r\n">>
         /\ inputBuffer' = <<>>
         /\ inputIndex' = 0
         /\ UNCHANGED <<filter_window_size, staleEmits>>

\* lines 446-463: carriage return or newline
UARTLine(c) ==
    /\ IF inputIndex > 0
       THEN LET newN == stringToInt(inputBuffer)
            IN  IF InRange(newN)
                THEN /\ PublishWindow(newN)
                     /\ uartOut' = <<c, "\r\n", "\n Filter now N = ">>
                                   \o inputBuffer \o <<"\r\n">>
                ELSE /\ uartOut' = <<c, "\r\n", "\n Invalid N (10-100).\r\n">>
                     /\ UNCHANGED <<filter_window_size, staleEmits>>
       ELSE /\ uartOut' = <<c, "\r\n", "\n Empty buffer.\r\n">>
            /\ UNCHANGED <<filter_window_size, staleEmits>>
    /\ inputBuffer' = <<>>
    /\ inputIndex' = 0

\* mutant of UARTOther: the index is not reset
UARTOtherKeepsBuffer(c) ==
    /\ UNCHANGED <<inputBuffer, inputIndex>>
    /\ uartOut' = <<c, "\n Non numeric character.\r\n">>

\* lines 464-467: any other character
UARTOther(c) ==
    /\ inputBuffer' = <<>>
    /\ inputIndex' = 0
    /\ uartOut' = <<c, "\n Non numeric character.\r\n">>

\* lines 435-467 for the character c read from the UART (echoed first)
UARTStep(c) ==
    /\ IF IsDigit(c)
       THEN UARTDigit(c) /\ UNCHANGED <<filter_window_size, staleEmits>>
       ELSE IF c \in Terminators
       THEN UARTLine(c)
       ELSE UARTOther(c) /\ UNCHANGED <<filter_window_size, staleEmits>>
    /\ keysLeft' = keysLeft - 1
    /\ IF c \in Terminators
       THEN /\ lineError' = FALSE /\ afterError' = <<>>
            /\ endedLine' = lineError
       ELSE /\ IF Len(uartOut') > 1
               THEN lineError' = TRUE /\ afterError' = <<>>
               ELSE lineError' = lineError /\ afterError' = Append(afterError, c)
            /\ UNCHANGED endedLine
    /\ UNCHANGED <<received, emitted, sensorVars, queueVars, filterVars,
                   graphVars>>
    /\ UNCHANGED otherVars

\* lines 434-471: one character is available and is handled (with none
\* available the task only delays 10 ms)
UARTReader ==
    /\ keysLeft > 0
    /\ \E c \in Chars : UARTStep(c)

InitWith(samples, keys) ==
    /\ sensorPc = "gen"
    /\ seed = [hi |-> 0, lo |-> InitialSeed]
    /\ temperature = 0
    /\ samplesLeft = samples
    /\ xRawTemperatureQueue = <<>>
    /\ xFilteredDataQueue = <<>>
    /\ filterPc = "start"
    /\ window_size = 0
    /\ buffer = <<>>
    /\ uninit = {}
    /\ index = 0
    /\ sum = 0
    /\ count = 0
    /\ filtered_value = 0
    /\ ucDisplayBuffer = [i \in 1 .. 2 * DISPLAY_BUFFER_OFFSET |-> 0]
    /\ inputBuffer = <<>>
    /\ inputIndex = 0
    /\ keysLeft = keys
    /\ filter_window_size = InitialWindowSize
    /\ uartOut = <<>>
    /\ generated = <<>>
    /\ sent = <<>>
    /\ received = <<>>
    /\ emitted = <<>>
    /\ rendered = <<>>
    /\ hist = <<>>
    /\ wasReset = FALSE
    /\ dirtyAtReset = FALSE
    /\ staleEmits = 0
    /\ lineError = FALSE
    /\ afterError = <<>>
    /\ endedLine = FALSE

\* main has created both queues and every task and started the scheduler
Started ==
    /\ mainPc = "running"
    /\ queuesCreated = {"xRawTemperatureQueue", "xFilteredDataQueue"}
    /\ tasksCreated = AllTasks
    /\ startupNotices = <<"Starting...\n">>

\* vTopLikeTask has not run yet; static UBaseType_t uxMaxTasks = 0
TopInit ==
    /\ topPc = "start"
    /\ pxTaskStatusArray = "unset"
    /\ uxMaxTasks = 0
    /\ uxArraySize = 0
    /\ topCapacity = 0
    /\ topCalls = <<>>

\* no write to the slot and no read of it yet
NoSlotLog ==
    /\ pendingWrites = <<>>
    /\ lastCheck = [writes |-> <<>>, before |-> 0, reset |-> FALSE]

\* the tasks not under study do not run
Others == Started /\ TopInit /\ topCyclesLeft = 0 /\ feed = <<>> /\ NoSlotLog

Init == InitWith(MaxSamples, MaxKeys) /\ Others

Next ==
    \/ SensorGenerate
    \/ SensorSend
    \/ FilterStart
    \/ FilterCheckReconfig
    \/ FilterReceive
    \/ FilterSend
    \/ DisplayGraph
    \/ UARTReader

Spec == Init /\ [][Next]_vars

(***************************************************************************)
(* The pipeline alone (no operator input): sensor, filter, graph.          *)
(***************************************************************************)
InitPipe == InitWith(MaxPipeSamples, 0) /\ Others

NextPipe ==
    \/ SensorGenerate
    \/ SensorSend
    \/ FilterStart
    \/ FilterCheckReconfig
    \/ FilterReceive
    \/ FilterSend
    \/ DisplayGraph

SpecPipe == InitPipe /\ [][NextPipe]_vars

(***************************************************************************)
(* The command interface alone, with the filter reading the slot.          *)
(***************************************************************************)
InitUART == InitWith(0, MaxLineKeys) /\ Others

NextUART ==
    \/ UARTReader
    \/ FilterStart
    \/ FilterCheckReconfig

SpecUART == InitUART /\ [][NextUART]_vars

(***************************************************************************)
(* The filter task alone: its two queues and the slot's writer are the     *)
(* environment.  The raw queue hands it any sample, the filtered queue     *)
(* always has room, and the slot takes any accepted window size.           *)
(***************************************************************************)
\* lines 333-351 with the received sample chosen freely
FilterReceiveAny(raw_temperature) ==
    /\ filterPc = "receive"
    /\ Len(hist) < MaxHist
    /\ \E old \in OldValues : FilterProcess(old, raw_temperature)
    /\ UNCHANGED <<queueVars, filterLog, sensorVars, graphVars, uartVars,
                   filter_window_size>>
    /\ UNCHANGED otherVars

\* lines 354-357 with room in the filtered queue
FilterSendAny ==
    /\ filterPc = "send"
    /\ filterPc' = "check"
    /\ uartOut' = <<>>
    /\ UNCHANGED <<window_size, buffer, uninit, index, sum, count,
                   filtered_value, hist, wasReset, dirtyAtReset, queueVars,
                   filterLog, sensorVars, graphVars, uartVars,
                   filter_window_size>>
    /\ UNCHANGED otherVars

\* line 453 with an accepted value chosen freely
SlotWrite(newN) ==
    /\ PublishWindow(newN)
    /\ uartOut' = <<>>
    /\ UNCHANGED <<received, emitted, sensorVars, queueVars, filterVars,
                   graphVars, uartVars>>
    /\ UNCHANGED otherVars

InitFilter == InitWith(0, 0) /\ Others

NextFilter ==
    \/ FilterStart
    \/ FilterCheckReconfig
    \/ \E x \in SampleSet : FilterReceiveAny(x)
    \/ FilterSendAny
    \/ \E w \in WindowSet : SlotWrite(w)

SpecFilter == InitFilter /\ [][NextFilter]_vars

(***************************************************************************)
(* main: start-up.  xQueueCreate returns a handle or NULL; after a NULL     *)
(* main sends one message and spins in for (;;).  Tasks run only once      *)
(* vTaskStartScheduler has been called.                                    *)
(***************************************************************************)
\* what main leaves alone: every task's state
taskState == <<sensorVars, queueVars, filterVars, filterLog, graphVars,
               uartVars, filter_window_size, topVars, feed, slotLog>>

\* vUARTSend from main
MainSend(message) ==
    /\ uartOut' = <<message>>
    /\ startupNotices' = Append(startupNotices, message)

\* mutant of MainCreateRaw: the for (;;) after the error message is missing
MainCreateRawGoesOn ==
    /\ mainPc = "createRaw"
    /\ \/ /\ queuesCreated' = queuesCreated \cup {"xRawTemperatureQueue"}
          /\ uartOut' = <<>>
          /\ UNCHANGED startupNotices
       \/ /\ MainSend("Error: Failed to create raw temperature queue.\n")
          /\ UNCHANGED queuesCreated
    /\ mainPc' = "createFiltered"
    /\ UNCHANGED <<tasksCreated, taskState>>

\* lines 158-162
MainCreateRaw ==
    /\ mainPc = "createRaw"
    /\ \/ /\ queuesCreated' = queuesCreated \cup {"xRawTemperatureQueue"}
          /\ mainPc' = "createFiltered"
          /\ uartOut' = <<>>
          /\ UNCHANGED startupNotices
       \/ /\ MainSend("Error: Failed to create raw temperature queue.\n")
          /\ mainPc' = "halted"
          /\ UNCHANGED queuesCreated
    /\ UNCHANGED <<tasksCreated, taskState>>

\* lines 165-169
MainCreateFiltered ==
    /\ mainPc = "createFiltered"
    /\ \/ /\ queuesCreated' = queuesCreated \cup {"xFilteredDataQueue"}
          /\ mainPc' = "createTasks"
          /\ uartOut' = <<>>
          /\ UNCHANGED startupNotices
       \/ /\ MainSend("Error: Could not create queue for filtered values.\n")
          /\ mainPc' = "halted"
          /\ UNCHANGED queuesCreated
    /\ UNCHANGED <<tasksCreated, taskState>>

\* lines 171-249: the banner, the seven xTaskCreate calls (only the result
\* of the UART reader's is looked at), then vTaskStartScheduler
MainStart ==
    /\ mainPc = "createTasks"
    /\ \/ /\ tasksCreated' = AllTasks
          /\ MainSend("Starting...\n")
       \/ /\ tasksCreated' = AllTasks \ {"UARTReader"}
          /\ uartOut' = <<"Starting...\n", "UARTReaderTask couldn't be created.\n">>
          /\ startupNotices' = startupNotices \o uartOut'
    /\ mainPc' = "running"
    /\ UNCHANGED <<queuesCreated, taskState>>

\* the scheduler runs a task that was created, once it has been started
Scheduled(task) == mainPc = "running" /\ task \in tasksCreated

\* the program from reset: main, then the pipeline tasks
InitMain ==
    /\ InitWith(MaxMainSamples, 0)
    /\ mainPc = "createRaw"
    /\ queuesCreated = {}
    /\ tasksCreated = {}
    /\ startupNotices = <<>>
    /\ TopInit /\ topCyclesLeft = 0 /\ feed = <<>> /\ NoSlotLog

NextMain ==
    \/ MainCreateRaw
    \/ MainCreateFiltered
    \/ MainStart
    \/ Scheduled("TempSensorTask") /\ SensorGenerate
    \/ Scheduled("TempSensorTask") /\ SensorSend
    \/ Scheduled("FilterTask") /\ FilterStart
    \/ Scheduled("FilterTask") /\ FilterCheckReconfig
    \/ Scheduled("FilterTask") /\ FilterReceive
    \/ Scheduled("FilterTask") /\ FilterSend
    \/ Scheduled("GraphTask") /\ DisplayGraph

SpecMain == InitMain /\ [][NextMain]_vars

(***************************************************************************)
(* vTopLikeTask.  pxTaskStatusArray is an automatic variable without       *)
(* initialiser: at task entry it holds whatever the stack held, NULL or    *)
(* not.  One step is one report cycle, from one vTaskDelay to the next.    *)
(***************************************************************************)
\* what the task leaves alone
notTop == <<sensorVars, queueVars, filterVars, filterLog, graphVars,
            uartVars, filter_window_size, mainVars, feed, slotLog>>

\* lines 521-530: task entry
TopStart ==
    /\ topPc = "start"
    /\ topCyclesLeft > 0
    /\ pxTaskStatusArray' \in {"null", "wild"}
    /\ topPc' = "loop"
    /\ uartOut' = <<>>
    /\ UNCHANGED <<uxMaxTasks, uxArraySize, topCapacity, topCalls,
                   topCyclesLeft, notTop>>

\* a call with a pointer argument, as recorded in topCalls
Call(name, pointer) == [call |-> name, arg |-> pointer]

\* line 543, reached when the pointer is not NULL
TopFree == IF pxTaskStatusArray # "null"
           THEN <<Call("vPortFree", pxTaskStatusArray)>> ELSE <<>>

\* lines 557-567 with the table at pointer: the snapshot call and the report
TopReport(pointer, calls) ==
    /\ topCalls' = Append(calls, Call("uxTaskGetSystemState", pointer))
    /\ uartOut' = <<"\nFree Heap: ", "\nTask Stats:\n">>

\* lines 532-567: one cycle with liveTasks tasks; mallocOk is the outcome
\* of pvPortMalloc, survives whether a call on a pointer that is not a live
\* allocation lets the task go on
TopCycle(liveTasks, mallocOk, survives) ==
    /\ topPc = "loop"
    /\ topCyclesLeft > 0
    /\ topCyclesLeft' = topCyclesLeft - 1
    /\ uxArraySize' = liveTasks
    /\ IF liveTasks > uxMaxTasks
       THEN IF pxTaskStatusArray = "wild" /\ ~survives
            THEN /\ topCalls' = TopFree
                 /\ topPc' = "crashed"
                 /\ uartOut' = <<"\nFree Heap: ">>
                 /\ UNCHANGED <<pxTaskStatusArray, uxMaxTasks, topCapacity>>
            ELSE IF mallocOk
            THEN /\ pxTaskStatusArray' = "valid"
                 /\ topCapacity' = liveTasks
                 /\ uxMaxTasks' = liveTasks
                 /\ TopReport("valid", Append(TopFree, Call("pvPortMalloc", "valid")))
                 /\ UNCHANGED topPc
            ELSE /\ pxTaskStatusArray' = "null"
                 /\ topCapacity' = 0
                 /\ topCalls' = Append(TopFree, Call("pvPortMalloc", "null"))
                 /\ uartOut' = <<"\nFree Heap: ",
                                 " Could not allocate memory for pxTaskStatusArray\n">>
                 /\ UNCHANGED <<uxMaxTasks, topPc>>
       ELSE /\ TopReport(pxTaskStatusArray, <<>>)
            /\ topPc' = IF pxTaskStatusArray = "valid" \/ survives
                        THEN "loop" ELSE "crashed"
            /\ UNCHANGED <<pxTaskStatusArray, uxMaxTasks, topCapacity>>
    /\ UNCHANGED notTop

\* the resource monitor alone
InitTop ==
    /\ InitWith(0, 0)
    /\ Started
    /\ TopInit
    /\ topCyclesLeft = MaxCycles
    /\ feed = <<>>
    /\ NoSlotLog

NextTop ==
    \/ TopStart
    \/ \E n \in TaskCounts, mallocOk \in BOOLEAN, survives \in BOOLEAN :
           TopCycle(n, mallocOk, survives)

SpecTop == InitTop /\ [][NextTop]_vars

(***************************************************************************)
(* The graph task alone: the filtered queue is fed one of a few streams    *)
(* of values, some below 15 and some above 35.                             *)
(***************************************************************************)
\* a stream of MaxRenders values between 10 and 40
FeedLine(a, b) == [i \in 1 .. MaxRenders |-> 10 + ((a * i + b) % 31)]

Feeds == {FeedLine(a, b) : a \in {0, 1, 7}, b \in {0, 5, 30}}

\* lines 354-356 seen from the graph task: the next value arrives on the
\* filtered queue when it has room
FeedFiltered ==
    /\ feed # <<>>
    /\ QueueHasRoom(xFilteredDataQueue)
    /\ xFilteredDataQueue' = QueueSend(xFilteredDataQueue, Head(feed))
    /\ emitted' = Append(emitted, Head(feed))
    /\ feed' = Tail(feed)
    /\ uartOut' = <<>>
    /\ UNCHANGED <<xRawTemperatureQueue, received, staleEmits, sensorVars,
                   filterVars, graphVars, uartVars, filter_window_size,
                   mainVars, topVars, slotLog>>

InitGraph ==
    /\ InitWith(0, 0)
    /\ Started
    /\ TopInit
    /\ topCyclesLeft = 0
    /\ feed \in Feeds
    /\ NoSlotLog

NextGraph ==
    \/ FeedFiltered
    \/ DisplayGraph

SpecGraph == InitGraph /\ [][NextGraph]_vars

(***************************************************************************)
(* The slot between its writer and its reader: the pipeline runs on the    *)
(* sensor's samples while accepted window sizes are written to the slot    *)
(* at any moment; every write and every read in the loop is recorded.      *)
(***************************************************************************)
\* line 453 with an accepted value chosen freely, recorded
RaceSlotWrite(newN) ==
    /\ Len(pendingWrites) < MaxWrites
    /\ PublishWindow(newN)
    /\ pendingWrites' = Append(pendingWrites, newN)
    /\ uartOut' = <<>>
    /\ UNCHANGED <<lastCheck, received, emitted, sensorVars, queueVars,
                   filterVars, graphVars, uartVars, mainVars, topVars, feed>>

\* mutant of RaceCheckReconfig: the filter resets whenever the slot was
\* written since its last read, whatever the value it finds
RaceCheckResetsOnWrite ==
    /\ filterPc = "check"
    /\ IF filter_window_size # window_size \/ pendingWrites # <<>>
       THEN /\ FilterReset(filter_window_size)
            /\ hist' = <<>>
            /\ wasReset' = TRUE
            /\ dirtyAtReset' = (hist # <<>>)
       ELSE /\ uartOut' = <<>>
            /\ UNCHANGED <<window_size, index, sum, count, buffer, uninit,
                           hist, wasReset, dirtyAtReset>>
    /\ filterPc' = "receive"
    /\ pendingWrites' = <<>>
    /\ lastCheck' = [writes |-> pendingWrites, before |-> window_size,
                     reset |-> (filter_window_size # window_size
                                \/ pendingWrites # <<>>)]
    /\ UNCHANGED <<filtered_value, sensorVars, queueVars, filterLog,
                   graphVars, uartVars, filter_window_size, mainVars,
                   topVars, feed>>

\* lines 318-328, recorded: one read of the volatile global, the comparison
\* with window_size, and the reset when they differ
RaceCheckReconfig ==
    /\ filterPc = "check"
    /\ IF filter_window_size # window_size
       THEN /\ FilterReset(filter_window_size)
            /\ hist' = <<>>
            /\ wasReset' = TRUE
            /\ dirtyAtReset' = (hist # <<>>)
       ELSE /\ uartOut' = <<>>
            /\ UNCHANGED <<window_size, index, sum, count, buffer, uninit,
                           hist, wasReset, dirtyAtReset>>
    /\ filterPc' = "receive"
    /\ pendingWrites' = <<>>
    /\ lastCheck' = [writes |-> pendingWrites, before |-> window_size,
                     reset |-> (filter_window_size # window_size)]
    /\ UNCHANGED <<filtered_value, sensorVars, queueVars, filterLog,
                   graphVars, uartVars, filter_window_size, mainVars,
                   topVars, feed>>

InitRace == InitWith(MaxRaceSamples, 0) /\ Others

NextRace ==
    \/ SensorGenerate
    \/ SensorSend
    \/ FilterStart
    \/ RaceCheckReconfig
    \/ FilterReceive
    \/ FilterSend
    \/ DisplayGraph
    \/ \E w \in WindowSet : RaceSlotWrite(w)

SpecRace == InitRace /\ [][NextRace]_vars

(***************************************************************************)
(* Properties                                                              *)
(***************************************************************************)

\* C1: each of the two queues (capacity 10) never holds more than 10 items,
\* and what its consumer has received, followed by what it still holds, is
\* exactly what its producer has put, in the same order.
ChannelsBoundedFifo ==
    /\ Len(xRawTemperatureQueue) <= 10
    /\ Len(xFilteredDataQueue) <= 10
    /\ sent = received \o xRawTemperatureQueue
    /\ emitted = rendered \o xFilteredDataQueue

\* the raw queue is full while values have gone all the way to the display
ChannelsWitness ==
    /\ Len(xRawTemperatureQueue) = 10
    /\ rendered # <<>>

\* C2: no sample is dropped or duplicated: the samples generated are, in
\* order, those the filter has received, then those waiting in the raw
\* queue, then the one the sensor task holds while it waits for a free slot.
NoSampleLost ==
    generated = received \o xRawTemperatureQueue
                \o (IF sensorPc = "send" THEN <<temperature>> ELSE <<>>)

\* the sensor task holds a sample and waits on the full raw queue
BackPressureWitness ==
    /\ sensorPc = "send"
    /\ Len(xRawTemperatureQueue) = QUEUE_LENGTH
    /\ Len(generated) = QUEUE_LENGTH + 1 + Len(received)

\* C3: once the filter has reset its window, the n-th value it emits since
\* the most recent reset is the truncated quotient of the sum of the last
\* min(n, W) samples by min(n, W); and the loop started from a reset state
\* with W = 3 turns 20,22,24,26,28 into 20,21,22,24,26.
FilterOutputIsWindowAverage ==
    /\ (wasReset /\ filterPc = "send") =>
          LET k == Min(Len(hist), window_size)
          IN  filtered_value = SumSeq(LastN(hist, k)) \div k
    /\ RunFilter(ResetState, 3, <<20, 22, 24, 26, 28>>) = <<20, 21, 22, 24, 26>>

\* after a reset the window has filled and wrapped, on unequal samples
WindowWrappedWitness ==
    /\ wasReset
    /\ filterPc = "send"
    /\ Len(hist) > window_size
    /\ hist[1] # hist[Len(hist)]
    /\ filtered_value # hist[Len(hist)]

\* C4: a check-reconfig step that reads a slot value other than window_size
\* adopts it, zeroes the buffer, sum, count and index and sends one notice;
\* and the first value emitted after a reset is the one sample received
\* since, whatever was received before.
ReconfigResetsFilter ==
    /\ [][(filterPc = "check" /\ filterPc' # "check"
           /\ filter_window_size # window_size) =>
              /\ window_size' = filter_window_size
              /\ \A i \in 1 .. MAX_WINDOW_SIZE : buffer'[i] = 0
              /\ uninit' = {}
              /\ sum' = 0 /\ count' = 0 /\ index' = 0
              /\ uartOut' = <<"\nFilter window size updated.\n">>]_vars
    /\ []((wasReset /\ filterPc = "send" /\ Len(hist) = 1) =>
              filtered_value = hist[1])

\* the first value after a reset that discarded earlier samples
FirstAfterResetWitness ==
    /\ wasReset
    /\ dirtyAtReset
    /\ filterPc = "send"
    /\ Len(hist) = 1
    /\ window_size \in WindowSet

\* the ten digit characters, in order of value
DigitChars == <<"0", "1", "2", "3", "4", "5", "6", "7", "8", "9">>

\* the base-10 value of a string of digits, last digit first
RECURSIVE Base10(_)
Base10(digits) ==
    IF digits = <<>> THEN 0
    ELSE LET last == digits[Len(digits)]
             d == CHOOSE v \in 0 .. 9 : DigitChars[v + 1] = last
         IN  d + 10 * Base10(SubSeq(digits, 1, Len(digits) - 1))

\* this step handled one character; it is the first thing echoed
KeyHandled == keysLeft' = keysLeft - 1

\* C5: a CR or LF handled while the buffer holds digits of value v in
\* [10, 100] writes v to the slot and sends "Filter now N = " and the
\* digits; "55" parses to 55, which is in range.
AcceptedLineSetsSlot ==
    /\ [][(/\ KeyHandled
           /\ uartOut'[1] \in {"\r", "\n"}
           /\ inputBuffer # <<>>
           /\ Base10(inputBuffer) \in 10 .. 100) =>
              /\ filter_window_size' = Base10(inputBuffer)
              /\ uartOut' = <<uartOut'[1], "\r\n", "\n Filter now N = ">>
                            \o inputBuffer \o <<"\r\n">>]_vars
    /\ stringToInt(<<"5", "5">>) = 55 /\ InRange(55)

\* "100" and a CR have just been accepted
AcceptedWitness ==
    /\ uartOut = <<"\r", "\r\n", "\n Filter now N = ", "1", "0", "0", "\r\n">>
    /\ filter_window_size = 100
    /\ inputIndex = 0

\* C6: every rejected character (a character that is neither digit nor
\* terminator, a digit when 9 are buffered, a terminator on an empty buffer,
\* a terminated value outside [10, 100]) sends its message, empties the
\* buffer and changes neither the slot nor the filter's window.
RejectionsRecoverLocally ==
    [][KeyHandled =>
        LET c == uartOut'[1]
            digit == \E v \in 1 .. 10 : DigitChars[v] = c
            terminator == c \in {"\r", "\n"}
            recovered == /\ inputBuffer' = <<>>
                         /\ inputIndex' = 0
                         /\ filter_window_size' = filter_window_size
                         /\ window_size' = window_size
        IN  /\ (~digit /\ ~terminator) =>
                 /\ uartOut' = <<c, "\n Non numeric character.\r\n">>
                 /\ recovered
            /\ (digit /\ Len(inputBuffer) = INPUT_BUFFER_SIZE - 1) =>
                 /\ uartOut' = <<c, "\nVery long entry. Try again.\r\n">>
                 /\ recovered
            /\ (terminator /\ inputBuffer = <<>>) =>
                 /\ uartOut' = <<c, "\r\n", "\n Empty buffer.\r\n">>
                 /\ recovered
            /\ (terminator /\ inputBuffer # <<>>
                /\ Base10(inputBuffer) \notin 10 .. 100) =>
                 /\ uartOut' = <<c, "\r\n", "\n Invalid N (10-100).\r\n">>
                 /\ recovered]_vars

\* a value was rejected after another had been accepted and adopted
RejectedWitness ==
    /\ uartOut = <<"\r", "\r\n", "\n Invalid N (10-100).\r\n">>
    /\ filter_window_size = 10
    /\ window_size = 10
    /\ filterPc = "receive"

\* C7: the slot holds its initial value or a value in [10, 100]: nothing
\* the operator types makes the command interface publish another value.
SlotAlwaysInRange ==
    \/ filter_window_size = InitialWindowSize
    \/ filter_window_size \in 10 .. 100

\* the upper limit itself was published, and typing went on
SlotWrittenWitness ==
    /\ filter_window_size = 100
    /\ Len(inputBuffer) = 3

\* C8: after a write to the slot, the filter emits at most one value with a
\* window size other than the slot's before it adopts the slot's value.
AtMostOneStaleEmit == staleEmits <= 1

\* one value went out with the old window, then the new one was adopted
StaleThenAdoptedWitness ==
    /\ staleEmits = 1
    /\ wasReset
    /\ window_size = filter_window_size
    /\ window_size = 10

\* the three pipeline tasks all wait on a queue
AllBlocked ==
    /\ sensorPc = "send" /\ ~QueueHasRoom(xRawTemperatureQueue)
    /\ \/ filterPc = "receive" /\ ~QueueHasItem(xRawTemperatureQueue)
       \/ filterPc = "send" /\ ~QueueHasRoom(xFilteredDataQueue)
    /\ ~QueueHasItem(xFilteredDataQueue)

\* C9: the pipeline never stalls: the three pipeline tasks are never all
\* waiting on a queue, and while a sample put on the raw queue has not yet
\* reached the graph task as a filtered value, the filter task or the graph
\* task is able to take its next step (so the sample does get there).
PipelineNeverStalls ==
    /\ ~AllBlocked
    /\ Len(rendered) < Len(sent) =>
          \/ ENABLED FilterStart
          \/ ENABLED FilterCheckReconfig
          \/ ENABLED FilterReceive
          \/ ENABLED FilterSend
          \/ ENABLED DisplayGraph

\* C10: a filter task suspended for lack of memory has no buffer, and the
\* sensor task is not stuck on the full raw queue.
FilterFailureIsIsolated ==
    filterPc = "suspended" =>
        /\ buffer = <<>>
        /\ ~(sensorPc = "send" /\ ~QueueHasRoom(xRawTemperatureQueue))

\* a step that operates on a queue: it changes the queue or moves a task
\* past a send or a receive
TouchesRaw == xRawTemperatureQueue' # xRawTemperatureQueue
TouchesFiltered == xFilteredDataQueue' # xFilteredDataQueue

\* C11: when xQueueCreate fails for either queue, main sends exactly one
\* message (that queue's) and halts for good: from then on nothing changes,
\* no task has been created and the scheduler is not started; and no step
\* ever operates on a queue that was not created.
StartupFailureHalts ==
    /\ [](mainPc = "halted" =>
            /\ tasksCreated = {}
            /\ Len(startupNotices) = 1
            /\ startupNotices[1] =
                 IF "xRawTemperatureQueue" \notin queuesCreated
                 THEN "Error: Failed to create raw temperature queue.\n"
                 ELSE "Error: Could not create queue for filtered values.\n"
            /\ "xFilteredDataQueue" \notin queuesCreated)
    /\ []((mainPc = "running" \/ tasksCreated # {}) =>
            queuesCreated = {"xRawTemperatureQueue", "xFilteredDataQueue"})
    /\ [][/\ mainPc = "halted" => UNCHANGED vars
          /\ (mainPc = "createRaw" /\ mainPc' # "createRaw"
              /\ "xRawTemperatureQueue" \notin queuesCreated') =>
                 mainPc' = "halted"
          /\ (mainPc = "createFiltered" /\ mainPc' # "createFiltered"
              /\ "xFilteredDataQueue" \notin queuesCreated') =>
                 mainPc' = "halted"
          /\ TouchesRaw => "xRawTemperatureQueue" \in queuesCreated
          /\ TouchesFiltered => "xFilteredDataQueue" \in queuesCreated
          /\ (sensorPc' # sensorPc \/ filterPc' # filterPc) =>
                 mainPc = "running"]_vars

\* main halted because the second queue could not be created
HaltedWitness ==
    /\ mainPc = "halted"
    /\ queuesCreated = {"xRawTemperatureQueue"}
    /\ uartOut = <<"Error: Could not create queue for filtered values.\n">>

\* C12: the resource monitor never crashes and never hands vPortFree or
\* uxTaskGetSystemState a table pointer that is not a live allocation; a
\* cycle whose allocation failed makes no snapshot call.
TopNeverMisusesBuffer ==
    /\ topPc # "crashed"
    /\ \A i \in 1 .. Len(topCalls) :
          /\ topCalls[i].call \in {"vPortFree", "uxTaskGetSystemState"} =>
                topCalls[i].arg = "valid"
          /\ topCalls[i] = Call("pvPortMalloc", "null") => i = Len(topCalls)

\* pixel (x, y) of the 96 x 16 bitmap: bit y mod 8 of byte x of page y div 8
PixelOn(x, y) == (ucDisplayBuffer[x + (y \div 8) * 96 + 1] \div (2 ^ (y % 8))) % 2 = 1

\* the rows of column x whose pixel is set
ColumnRows(x) == {y \in 0 .. 15 : PixelOn(x, y)}

\* the height 0..15 of a value: (value - 15) * 15 / 20 clamped
HeightOf(value) ==
    LET h == ((value - 15) * 15) \div 20
    IN  IF h < 0 THEN 0 ELSE IF h > 15 THEN 15 ELSE h

\* a column that encodes a value: its plot, row 0 at the top, and the
\* horizontal axis in row 15
PlotRows(value) == {15 - HeightOf(value), 15}

\* C13: once a value has been rendered, every pixel of column 0 (rows 0..15)
\* and every pixel of row 15 (columns 0..95) is set, after every render.
AxesAlwaysDrawn ==
    rendered # <<>> =>
        /\ \A y \in 0 .. 15 : PixelOn(0, y)
        /\ \A x \in 0 .. 95 : PixelOn(x, 15)

\* several renders have scrolled plots through the bitmap
AxesWitness ==
    /\ Len(rendered) >= 3
    /\ PixelOn(95, 0)
    /\ PixelOn(93, 0)
    /\ ~PixelOn(93, 1)

\* C14 as stated: after N renders column 95 encodes the N-th value, the
\* value rendered k renders earlier is in column 95 - k, and the (N-16)-th
\* value is encoded in no column.
ScrollOutAfter16 ==
    LET N == Len(rendered)
    IN  /\ N >= 1 => ColumnRows(95) = PlotRows(rendered[N])
        /\ \A k \in 1 .. 15 : k < N => ColumnRows(95 - k) = PlotRows(rendered[N - k])
        /\ N > 16 => \A x \in 0 .. 95 : ColumnRows(x) # PlotRows(rendered[N - 16])

\* C14 amended: after N renders column 95 encodes the N-th value, column
\* 95 - k the value rendered k renders earlier for every k up to 94 (a
\* column no value has reached holds the axis pixel only), and column 0 holds
\* the vertical axis: the (N-95)-th value and all before it have left the
\* bitmap.
ScrollKeepsLast95 ==
    LET N == Len(rendered)
    IN  N >= 1 =>
          /\ ColumnRows(95) = PlotRows(rendered[N])
          /\ \A k \in 1 .. 94 :
                ColumnRows(95 - k) = IF k < N THEN PlotRows(rendered[N - k])
                                     ELSE {15}
          /\ ColumnRows(0) = 0 .. 15

\* the first value rendered has left the bitmap; unequal plots fill it
ScrolledOutWitness ==
    /\ Len(rendered) >= 96
    /\ ColumnRows(1) # ColumnRows(2)
    /\ ColumnRows(1) # {15}
    /\ ColumnRows(94) # ColumnRows(95)

\* C15: at every emit, from task start on, sum is the sum of the count most
\* recent samples received since task start or the last reset, and the
\* first value emitted after task start is the first sample received.
SumIsSumOfRetained ==
    filterPc = "send" =>
        /\ sum = SumSeq(LastN(hist, count))
        /\ (~wasReset /\ Len(hist) = 1) => filtered_value = hist[1]

\* C16: once the filter task has started, 0 <= count <= window_size <= 100
\* and 0 <= index < window_size, so buffer[index] is one of the 100 cells,
\* also when the window size is changed to a smaller or a larger one.
FilterIndicesInBounds ==
    filterPc # "start" =>
        /\ 0 <= count /\ count <= window_size /\ window_size <= 100
        /\ 0 <= index /\ index < window_size
        /\ (buffer # <<>> => index + 1 \in DOMAIN buffer /\ Len(buffer) = 100)

\* the window is about to shrink from 11 to 10 with index at cell 10
ShrinkPendingWitness ==
    /\ filterPc = "check"
    /\ window_size = 11
    /\ filter_window_size = 10
    /\ index = 10
    /\ count = 10

\* C17: the filter never divides by zero: when it emits, count >= 1 (the
\* divisor of sum / count), and the window size it holds (the modulus of
\* the index) is never 0, whatever the operator types meanwhile.
FilterNeverDividesByZero ==
    /\ filterPc = "send" => count >= 1
    /\ filterPc # "start" => window_size # 0

\* the first emit after a reset that an operator command caused
EmitAfterCommandWitness ==
    /\ filterPc = "send"
    /\ wasReset
    /\ count = 1
    /\ window_size = 10
    /\ received # <<>>

\* C18: the filter puts one value on the filtered queue for each sample it
\* takes from the raw queue, in order: it has taken as many samples as it
\* has emitted values, or one more (exactly while it holds a value to send);
\* it takes a sample only when every earlier one has been answered, and the
\* value it emits is the one computed from the last sample taken.
OneEmitPerReceive ==
    /\ [](Len(received) - Len(emitted) \in {0, 1})
    /\ []((Len(received) - Len(emitted) = 1) <=> (filterPc = "send"))
    /\ [][/\ received' # received =>
                /\ Len(received) = Len(emitted)
                /\ Len(received') = Len(received) + 1
          /\ emitted' # emitted =>
                /\ emitted' = Append(emitted, filtered_value)
                /\ Len(emitted') = Len(received)]_vars

\* the filter holds the value of its 11th sample while the filtered queue
\* is full and more samples wait in the raw queue
HoldsValueWitness ==
    /\ filterPc = "send"
    /\ ~QueueHasRoom(xFilteredDataQueue)
    /\ QueueHasItem(xRawTemperatureQueue)
    /\ Len(received) = Len(emitted) + 1

\* the character is one of the ten digits
IsDigitChar(c) == \E v \in 1 .. 10 : DigitChars[v] = c

\* C19: the command buffer holds digits only; a handled character that is a
\* digit with fewer than 9 buffered is appended, and every other one (CR or
\* LF on any line, a character that is neither, a digit when 9 are
\* buffered) leaves the buffer empty; no other step changes the buffer.  So
\* the buffer always holds exactly the digits typed since the last reset.
BufferHoldsDigitsSinceReset ==
    /\ [](/\ inputIndex = Len(inputBuffer)
          /\ \A i \in 1 .. Len(inputBuffer) : IsDigitChar(inputBuffer[i]))
    /\ [][IF KeyHandled
          THEN IF IsDigitChar(uartOut'[1]) /\ Len(inputBuffer) < 9
               THEN inputBuffer' = Append(inputBuffer, uartOut'[1])
               ELSE inputBuffer' = <<>> /\ inputIndex' = 0
          ELSE UNCHANGED <<inputBuffer, inputIndex>>]_vars

\* two digits typed after a line that was accepted
DigitsAfterAcceptedWitness ==
    /\ filter_window_size = 10
    /\ inputBuffer = <<"1", "1">>
    /\ uartOut = <<"1">>

\* C20: the buffer never holds more than 9 digits and its index stays in
\* 0..9, inside the 10-byte array; a digit is appended (and only echoed)
\* when fewer than 9 are buffered, else it is dropped, the buffer emptied and
\* the "too long" notice sent: the 10th digit in a row takes that path.
BufferNeverOverflows ==
    /\ [](inputIndex \in 0 .. 9 /\ Len(inputBuffer) <= 9)
    /\ [][(KeyHandled /\ IsDigitChar(uartOut'[1])) =>
             IF inputIndex < 9
             THEN /\ inputIndex' = inputIndex + 1
                  /\ inputBuffer'[inputIndex'] = uartOut'[1]
                  /\ uartOut' = <<uartOut'[1]>>
             ELSE /\ inputIndex' = 0
                  /\ uartOut' = <<uartOut'[1], "\nVery long entry. Try again.\r\n">>]_vars

\* the 10th digit in a row has just been refused
TooLongWitness ==
    /\ uartOut = <<"1", "\nVery long entry. Try again.\r\n">>
    /\ inputIndex = 0
    /\ filter_window_size = InitialWindowSize

\* values around and far outside the range 15..35
HeightValues == -50 .. 100

\* C21: for every value the renderer computes
\* y = clamp((value - 15) * 15 / 20, 0, 15), so row 15 - y is in 0..15 and
\* setPixel does not discard the plot; after a render the pixels set in
\* column 95 are exactly that row and row 15.
PlotAlwaysInsideBitmap ==
    /\ \A value \in HeightValues :
          /\ ScaleHeight(value) = HeightOf(value)
          /\ 15 - ScaleHeight(value) \in 0 .. 15
    /\ rendered # <<>> =>
          LET value == rendered[Len(rendered)]
              row == 15 - HeightOf(value)
          IN  /\ PixelOn(95, row)
              /\ \A y \in 0 .. 15 : PixelOn(95, y) <=> y \in {row, 15}

\* a value above 35 was rendered, then one below 15
ClampedBothWaysWitness ==
    /\ Len(rendered) >= 2
    /\ rendered[Len(rendered)] < 15
    /\ rendered[Len(rendered) - 1] > 35
    /\ ColumnRows(95) = {15}
    /\ ColumnRows(94) = {0, 15}

\* a call of that name is among the calls of the cycle
Called(calls, name) == \E i \in 1 .. Len(calls) : calls[i].call = name

\* C22: the table only grows: a cycle calls pvPortMalloc only when the live
\* task count is above uxMaxTasks, uxMaxTasks never decreases, and whenever
\* uxTaskGetSystemState fills the table, the table's capacity is uxMaxTasks
\* and at least the task count passed to the call.
TableTracksHighWaterMark ==
    /\ [](Called(topCalls, "uxTaskGetSystemState") =>
             /\ topCapacity = uxMaxTasks
             /\ topCapacity >= uxArraySize)
    /\ [][/\ uxMaxTasks' >= uxMaxTasks
          /\ (topCyclesLeft' < topCyclesLeft /\ Called(topCalls', "pvPortMalloc")) =>
                uxArraySize' > uxMaxTasks]_vars

\* C23: in every state, from start-up on, the slot holds a value in
\* [10, 100], and so does the filter's window size once the task has read it.
SlotAndWindowAlwaysValid ==
    /\ filter_window_size \in 10 .. 100
    /\ filterPc # "start" => window_size \in 10 .. 100

\* C24 as stated: a CR or LF that ends a line on which an error notice was
\* sent (a non-digit character, or a digit when 9 were buffered) does not
\* change the slot.
ErrorLineNeverApplied ==
    [][(KeyHandled /\ lineError) =>
          filter_window_size' = filter_window_size]_vars

\* C24 amended: on a line on which an error notice was sent, what was typed
\* before the notice is never applied; the CR or LF that ends the line
\* writes the slot exactly when the digits typed after the last notice make
\* a value in [10, 100], and then it writes that value.
OnlyDigitsAfterErrorApplied ==
    /\ [](lineError => afterError = inputBuffer)
    /\ [][(KeyHandled /\ lineError) =>
             IF /\ uartOut'[1] \in {"\r", "\n"}
                /\ afterError # <<>>
                /\ Base10(afterError) \in 10 .. 100
             THEN filter_window_size' = Base10(afterError)
             ELSE filter_window_size' = filter_window_size]_vars

\* a line with an error notice ended with "11" typed after the notice
\* while the slot held 100: the slot went from 100 to 11
AppliedAfterErrorWitness ==
    /\ endedLine
    /\ filter_window_size = 11
    /\ uartOut = <<"\r", "\r\n", "\n Filter now N = ", "1", "1", "\r\n">>
    /\ window_size = 100

\* C25: of several values written to the slot between two reads by the
\* filter's loop, the read sees only the last: the filter's window becomes
\* the last value written and no other; when that value is the window the
\* filter already has, the filter state is kept and no notice is sent, even
\* though the slot held other values in between; otherwise there is one
\* reset and one notice.
LastWriteWins ==
    /\ [](pendingWrites # <<>> =>
             filter_window_size = pendingWrites[Len(pendingWrites)])
    /\ [][(filterPc = "check" /\ filterPc' # "check") =>
             /\ window_size' = filter_window_size
             /\ IF filter_window_size = window_size
                THEN /\ UNCHANGED <<buffer, uninit, index, sum, count, hist>>
                     /\ uartOut' = <<>>
                     /\ ~lastCheck'.reset
                ELSE /\ sum' = 0 /\ count' = 0 /\ index' = 0 /\ hist' = <<>>
                     /\ uartOut' = <<"\nFilter window size updated.\n">>]_vars

\* the slot went 10 -> 11 -> 10 between two reads of a filter whose window
\* is 10: the read changed nothing and the samples taken so far are kept
WriteBackWitness ==
    /\ lastCheck = [writes |-> <<11, 10>>, before |-> 10, reset |-> FALSE]
    /\ filterPc = "receive"
    /\ window_size = 10
    /\ hist # <<>>
    /\ count = Len(hist)
====
